---- MODULE Spec2Model ----
(***************************************************************************)
(* Model of the Cursor MCP server for Jira (src/app): the POST /context    *)
(* handler, the branch-name key extractor, the lru_cache-memoised issue    *)
(* lookup keyed by (issue key, time window) and the Jira loader with its   *)
(* error mapping.                                                          *)
(*                                                                         *)
(* Strings that the code scans or concatenates are sequences of            *)
(* one-character strings; an Optional[str] is a record with an isNone      *)
(* flag.  The outcome of a Python call is a record: a returned dict, a     *)
(* returned None, or a raised exception with its class and message.        *)
(***************************************************************************)
EXTENDS Integers, Sequences, FiniteSets, TLC

(***************************************************************************)
(* Bounds of the model                                                     *)
(***************************************************************************)
\* total number of POST /context requests accepted in a behaviour
MaxCalls == 2
\* time.time() when the process starts, in seconds
StartTime == 1800000000
\* number of clock steps in a behaviour
MaxTicks == 2
\* the longest branch name passed to the key extractor on its own
MaxBranchLen == 5

(***************************************************************************)
(* Program constants                                                       *)
(***************************************************************************)
CACHE_TTL == 300
maxsize == 100

\* seconds by which one clock step advances time.time(): half a window
TickStep == CACHE_TTL \div 2

\* the client connections; each carries one request at a time, so two
\* requests can be in progress together
Req == {1, 2}

(***************************************************************************)
(* Optional[str] and characters                                            *)
(***************************************************************************)
None == [isNone |-> TRUE, str |-> <<>>]
Some(s) == [isNone |-> FALSE, str |-> s]

\* Python truthiness of an Optional[str]: None and "" are falsy
Truthy(o) == ~o.isNone /\ Len(o.str) > 0

UpperChars == {"A", "B", "C", "D", "E", "F", "G", "H", "I", "J", "K", "L", "M",
               "N", "O", "P", "Q", "R", "S", "T", "U", "V", "W", "X", "Y", "Z"}
AsciiDigits == {"0", "1", "2", "3", "4", "5", "6", "7", "8", "9"}
\* decimal digits outside ASCII (category Nd), each one character:
\* ARABIC-INDIC DIGIT ONE and FULLWIDTH DIGIT TWO
UnicodeDigits == {"U+0661", "U+FF12"}

\* [A-Z] of the pattern
IsUpper(c) == c \in UpperChars
\* \d of a str pattern: any Unicode decimal digit
IsDigit(c) == c \in AsciiDigits \cup UnicodeDigits

(***************************************************************************)
(* utils.extract_jira_key_from_branch: re.search(r'([A-Z]{2,}-\d+)', s)    *)
(***************************************************************************)
RECURSIVE UpperRun(_, _)
\* length of the longest run of [A-Z] starting at position i
UpperRun(s, i) ==
    IF i > Len(s) \/ ~IsUpper(s[i]) THEN 0 ELSE 1 + UpperRun(s, i + 1)

RECURSIVE DigitRun(_, _)
\* length of the longest run of \d starting at position i
DigitRun(s, i) ==
    IF i > Len(s) \/ ~IsDigit(s[i]) THEN 0 ELSE 1 + DigitRun(s, i + 1)

\* length of the match of [A-Z]{2,}-\d+ anchored at i, 0 when there is none.
\* Both quantifiers are greedy; giving back letters never helps, because the
\* character after a shorter letter run is a letter, not the hyphen.
MatchLenAt(s, i) ==
    LET n == UpperRun(s, i)
        d == DigitRun(s, i + n + 1)
    IN  IF n >= 2 /\ i + n <= Len(s) /\ s[i + n] = "-" /\ d >= 1
        THEN n + 1 + d
        ELSE 0

\* re.search: the leftmost position with a match
extract_jira_key_from_branch(branch_name) ==
    LET s == branch_name
        starts == {i \in 1 .. Len(s) : MatchLenAt(s, i) > 0}
    IN  IF starts = {}
        THEN None
        ELSE LET i == CHOOSE j \in starts : \A k \in starts : j <= k
             IN  Some(SubSeq(s, i, i + MatchLenAt(s, i) - 1))

(***************************************************************************)
(* Inputs: branch names of requests                                        *)
(***************************************************************************)
Branches ==
    { None,
      Some(<<>>),
      Some(<<"f", "/", "A", "B", "-", "1">>),
      Some(<<"A", "B", "-", "2", "_", "x">>),
      Some(<<"a", "b", "-", "1">>) }

\* the issue keys the inputs lead to
Keys == {extract_jira_key_from_branch(b.str).str :
            b \in {x \in Branches : Truthy(x) /\
                       ~extract_jira_key_from_branch(x.str).isNone}}

(***************************************************************************)
(* Outcomes of Python calls                                                *)
(***************************************************************************)
ReturnDict(d) == [kind |-> "dict", val |-> d]
ReturnNone == [kind |-> "none"]
Raise(cls, message) == [kind |-> "raise", type |-> cls, msg |-> message]

\* isinstance(e, cls) for the exception classes in play: JiraClientError and
\* JIRAError derive from Exception and are unrelated to each other
IsInstance(type, cls) == cls = "Exception" \/ type = cls

(***************************************************************************)
(* The remote tracker                                                      *)
(***************************************************************************)
\* what the JIRA(...) constructor does when the configuration is complete:
\* it returns a client, or raises a JIRAError (the tracker rejected the
\* credentials, or answered the constructor's own request with 404 because
\* the server URL is wrong), or raises another exception
ClientOutcomes == {"ok", "jiraerror", "jiraerror_404", "exception"}

\* two states of an issue on the server; the second has no description,
\* no priority and no assignee
Versions == {"v1", "v2"}

RemoteIssue(ver) ==
    IF ver = "v1"
    THEN [summary |-> "Fix login", description |-> Some(<<"d">>),
          status |-> "Open", priority |-> Some(<<"High">>),
          assignee |-> Some(<<"Ann">>), created |-> "t0", updated |-> "t1",
          issuetype |-> "Bug", components |-> <<"web">>, labels |-> <<"ui">>]
    ELSE [summary |-> "Fix login page", description |-> None,
          status |-> "Done", priority |-> None,
          assignee |-> None, created |-> "t0", updated |-> "t2",
          issuetype |-> "Bug", components |-> <<>>, labels |-> <<>>]

\* what jira.issue(issue_key) and the reading of its fields do: the issue, a
\* JIRAError with an HTTP status code, or some other exception (network
\* failure, a field missing from the response)
RemoteOutcomes ==
    {[kind |-> "ok", ver |-> v] : v \in Versions}
        \cup {[kind |-> "jiraerror", status_code |-> c] : c \in {401, 404, 500}}
        \cup {[kind |-> "exception"]}

(***************************************************************************)
(* jira.get_jira_client                                                    *)
(***************************************************************************)
\* all([JIRA_SERVER, JIRA_EMAIL, JIRA_API_TOKEN]); a field of cfg is TRUE
\* when the environment variable is set and not empty
\* a variant of ConfigComplete with a defect: JIRA_EMAIL is not looked at
ConfigComplete_NoEmail(cfg) == cfg.server /\ cfg.token

ConfigComplete(cfg) == cfg.server /\ cfg.email /\ cfg.token

get_jira_client(cfg, clientOutcome) ==
    IF ~ConfigComplete(cfg)
    THEN Raise("JiraClientError", "Missing Jira configuration")
    ELSE CASE clientOutcome = "ok" -> [kind |-> "client"]
           [] clientOutcome \in {"jiraerror", "jiraerror_404"} ->
                Raise("JiraClientError", "Could not authenticate with Jira")
           [] OTHER -> Raise("JiraClientError", "Unexpected error")

(***************************************************************************)
(* jira.get_issue_details_cached: the decorated function's body            *)
(***************************************************************************)
\* the dict built from the issue's fields
IssueDict(issue_key, issue) ==
    [summary |-> issue.summary,
     description |-> IF Truthy(issue.description) THEN issue.description.str
                     ELSE <<"No description provided">>,
     status |-> issue.status,
     priority |-> IF issue.priority.isNone THEN <<"Not set">>
                  ELSE issue.priority.str,
     assignee |-> IF issue.assignee.isNone THEN <<"Unassigned">>
                  ELSE issue.assignee.str,
     created |-> issue.created,
     updated |-> issue.updated,
     url |-> <<"JIRA_SERVER", "/browse/", issue_key>>,
     issuetype |-> issue.issuetype,
     components |-> issue.components,
     labels |-> issue.labels]

\* what the try block raises or returns, before the except clauses
TryBody(issue_key, cfg, clientOutcome, remote) ==
    LET jira == get_jira_client(cfg, clientOutcome)
    IN  IF jira.kind = "raise"
        THEN jira
        ELSE CASE remote.kind = "ok" ->
                    ReturnDict(IssueDict(issue_key, RemoteIssue(remote.ver)))
               [] remote.kind = "jiraerror" ->
                    [kind |-> "raise", type |-> "JIRAError",
                     msg |-> "JIRAError", status_code |-> remote.status_code]
               [] OTHER -> Raise("OtherError", "error")

\* a variant of get_issue_details_cached with a defect: every JIRAError is
\* taken for "no such issue"
get_issue_details_cached_AnyStatus(issue_key, cfg, clientOutcome, remote) ==
    LET r == TryBody(issue_key, cfg, clientOutcome, remote)
    IN  IF r.kind # "raise"
        THEN r
        ELSE IF IsInstance(r.type, "JIRAError")
             THEN ReturnNone
             ELSE Raise("JiraClientError", "Unexpected error retrieving issue")

\* the function with its two except clauses: 404 becomes None, everything
\* else that is raised becomes JiraClientError
get_issue_details_cached(issue_key, cfg, clientOutcome, remote) ==
    LET r == TryBody(issue_key, cfg, clientOutcome, remote)
    IN  IF r.kind # "raise"
        THEN r
        ELSE IF IsInstance(r.type, "JIRAError")
             THEN IF r.status_code = 404
                  THEN ReturnNone
                  ELSE Raise("JiraClientError", "JIRA API error")
             ELSE Raise("JiraClientError", "Unexpected error retrieving issue")

\* the requests one run of the loader sends to the tracker: none when the
\* configuration is incomplete (get_jira_client raises before JIRA(...)),
\* else the one JIRA(...) sends and, if that succeeds, the one
\* jira.issue(issue_key) sends
RemoteCalls(cfg, clientOutcome) ==
    IF ~ConfigComplete(cfg) THEN 0
    ELSE IF clientOutcome = "ok" THEN 2 ELSE 1

(***************************************************************************)
(* functools.lru_cache(maxsize=100) around it.  The cache is a sequence of *)
(* entries ordered by recency of use: the head is the least recently used. *)
(***************************************************************************)
CacheEntry(args, result) == [args |-> args, result |-> result]

\* variants of CacheFind with a defect: the window index is not part of the
\* key; nothing is ever found
CacheFind_KeyOnly(c, args) ==
    LET hits == {i \in 1 .. Len(c) : c[i].args[1] = args[1]}
    IN  IF hits = {} THEN 0 ELSE CHOOSE i \in hits : TRUE

CacheFind_Never(c, args) == 0

\* a variant of CacheFind with a defect: the issue key is not compared
CacheFind_WindowOnly(c, args) ==
    LET hits == {i \in 1 .. Len(c) : c[i].args[2] = args[2]}
    IN  IF hits = {} THEN 0 ELSE CHOOSE i \in hits : TRUE

\* the entry whose key is the tuple of call arguments; 0 when there is none
CacheFind(c, args) ==
    LET hits == {i \in 1 .. Len(c) : c[i].args = args}
    IN  IF hits = {} THEN 0 ELSE CHOOSE i \in hits : TRUE

\* a variant of CacheTouch with a defect: a hit leaves the order alone
CacheTouch_NoMove(c, i) == c

\* a hit moves the entry to the most recently used end
CacheTouch(c, i) ==
    SubSeq(c, 1, i - 1) \o SubSeq(c, i + 1, Len(c)) \o <<c[i]>>

\* variants of CacheStore with a defect: the result is never stored; a raised
\* exception is stored like a value; None is not stored; a full cache grows
CacheStore_Never(c, args, result) == c

CacheStore_Failures(c, args, result) ==
    IF CacheFind(c, args) # 0 THEN c
    ELSE IF Len(c) >= maxsize THEN Tail(c) \o <<CacheEntry(args, result)>>
    ELSE Append(c, CacheEntry(args, result))

CacheStore_NoNone(c, args, result) ==
    IF result.kind # "dict" THEN c
    ELSE IF CacheFind(c, args) # 0 THEN c
    ELSE IF Len(c) >= maxsize THEN Tail(c) \o <<CacheEntry(args, result)>>
    ELSE Append(c, CacheEntry(args, result))

CacheStore_NoEvict(c, args, result) ==
    IF result.kind = "raise" THEN c
    ELSE IF CacheFind(c, args) # 0 THEN c
    ELSE Append(c, CacheEntry(args, result))

\* a variant of CacheStore with a defect: a store first drops the entries of
\* other windows
CacheStore_Purge(c, args, result) ==
    LET live == SelectSeq(c, LAMBDA e : e.args[2] = args[2])
    IN  IF result.kind = "raise" THEN c
        ELSE IF CacheFind(c, args) # 0 THEN c
        ELSE IF Len(live) >= maxsize
             THEN Tail(live) \o <<CacheEntry(args, result)>>
        ELSE Append(live, CacheEntry(args, result))

\* a variant of CacheStore with a defect: a full cache makes room before the
\* outcome is looked at
CacheStore_EvictFirst(c, args, result) ==
    LET room == IF Len(c) >= maxsize /\ CacheFind(c, args) = 0
                THEN Tail(c) ELSE c
    IN  IF result.kind = "raise" THEN room
        ELSE IF CacheFind(c, args) # 0 THEN c
        ELSE Append(room, CacheEntry(args, result))

\* after the wrapped function ends: an exception passes through and nothing
\* is stored; a returned value (None included) is stored unless the key got
\* in meanwhile; a full cache drops its least recently used entry first
CacheStore(c, args, result) ==
    IF result.kind = "raise" THEN c
    ELSE IF CacheFind(c, args) # 0 THEN c
    ELSE IF Len(c) >= maxsize THEN Tail(c) \o <<CacheEntry(args, result)>>
    ELSE Append(c, CacheEntry(args, result))

(***************************************************************************)
(* jira.get_issue_details: the window index of the call                    *)
(***************************************************************************)
\* int(time.time() / CACHE_TTL)
cache_timestamp(t) == t \div CACHE_TTL

(***************************************************************************)
(* main.get_context: POST /context                                         *)
(***************************************************************************)
\* a variant of LookupKey with a defect: a branch without a key is looked
\* up under its own text
LookupKey_Fallback(branch) ==
    IF ~Truthy(branch) THEN None
    ELSE IF extract_jira_key_from_branch(branch.str).isNone THEN branch
    ELSE extract_jira_key_from_branch(branch.str)

\* lines 61-65: the key the handler looks up, None when the branch is
\* missing or empty or holds no key
LookupKey(branch) ==
    IF Truthy(branch) THEN extract_jira_key_from_branch(branch.str) ELSE None

\* dict.get(name, default)
DictGet(d, name, default) == IF name \in DOMAIN d THEN d[name] ELSE default

\* a variant of ContextItem with a defect: the title is the summary alone
ContextItem_NoKey(jira_key, issue_details) ==
    [type |-> "jira_issue",
     title |-> <<DictGet(issue_details, "summary", "No summary")>>,
     content |-> DictGet(issue_details, "description", <<"No description">>),
     metadata |->
        [issue_key |-> jira_key,
         status |-> DictGet(issue_details, "status", "Unknown"),
         priority |-> DictGet(issue_details, "priority", <<"Unknown">>),
         assignee |-> DictGet(issue_details, "assignee", <<"Unassigned">>),
         url |-> DictGet(issue_details, "url", <<>>)]]

\* lines 70-81: the context item of an issue
ContextItem(jira_key, issue_details) ==
    [type |-> "jira_issue",
     title |-> <<jira_key, ": ", DictGet(issue_details, "summary", "No summary")>>,
     content |-> DictGet(issue_details, "description", <<"No description">>),
     metadata |->
        [issue_key |-> jira_key,
         status |-> DictGet(issue_details, "status", "Unknown"),
         priority |-> DictGet(issue_details, "priority", <<"Unknown">>),
         assignee |-> DictGet(issue_details, "assignee", <<"Unassigned">>),
         url |-> DictGet(issue_details, "url", <<>>)]]

\* utils.format_issue_for_context (lines 39-89): the item the helper builds
\* for an issue; get_context does not call it
format_issue_for_context(issue_key, issue_details) ==
    LET components == DictGet(issue_details, "components", <<>>)
        labels == DictGet(issue_details, "labels", <<>>)
        content_md ==
            <<"# ", issue_key, ": ",
              DictGet(issue_details, "summary", "No summary"),
              "**Type:** ", DictGet(issue_details, "issuetype", "Unknown"),
              "**Status:** ", DictGet(issue_details, "status", "Unknown"),
              "**Priority:** ", DictGet(issue_details, "priority", <<"Not set">>),
              "**Assignee:** ",
              DictGet(issue_details, "assignee", <<"Unassigned">>),
              "## Description",
              DictGet(issue_details, "description",
                      <<"No description provided">>)>>
              \o (IF components # <<>>
                  THEN <<"**Components:** ", components>> ELSE <<>>)
              \o (IF labels # <<>> THEN <<"**Labels:** ", labels>> ELSE <<>>)
              \o <<"[View in Jira](", DictGet(issue_details, "url", <<>>), ")">>
    IN  [type |-> "jira_issue",
         title |-> <<issue_key, ": ",
                     DictGet(issue_details, "summary", "No summary")>>,
         content |-> content_md,
         metadata |->
            [issue_key |-> issue_key,
             status |-> DictGet(issue_details, "status", "Unknown"),
             priority |-> DictGet(issue_details, "priority", <<"Unknown">>),
             assignee |-> DictGet(issue_details, "assignee", <<"Unassigned">>),
             issuetype |-> DictGet(issue_details, "issuetype", "Unknown"),
             url |-> DictGet(issue_details, "url", <<>>)]]

\* a variant of ContextHandlers with a defect: no except clause
ContextHandlers_None == {}

\* the exception classes of the except clauses around the lookup
ContextHandlers == {"JiraClientError", "Exception"}

Response(items) == [status |-> 200, context |-> items]
ServerError == [status |-> 500, context |-> <<>>]

\* lines 67-92: the response, given how get_issue_details ended
ContextResponse(jira_key, result) ==
    CASE result.kind = "dict" -> Response(<<ContextItem(jira_key, result.val)>>)
      [] result.kind = "none" -> Response(<<>>)
      [] OTHER ->
            IF \E cls \in ContextHandlers : IsInstance(result.type, cls)
            THEN Response(<<>>)
            ELSE ServerError

(***************************************************************************)
(* State                                                                   *)
(***************************************************************************)
VARIABLES
    now,        \* time.time(), in seconds
    config,     \* which of JIRA_SERVER, JIRA_EMAIL, JIRA_API_TOKEN are set
    cache,      \* the lru_cache of get_issue_details_cached
    pc,         \* per request: "idle", "queued", "loading" or "done"
    branch,     \* per request: the branch of its body
    get,        \* per request: its get_issue_details call
    resp,       \* per request: the response sent
    waiters,    \* per request: the requests queued when its load began
    calls,      \* requests accepted so far
    lastKey,    \* the key of the most recent get_issue_details call that ended
    lastOf,     \* per key: the most recent call for it that ended
    winsSeen,   \* per key: the window indexes of the calls that ended
    okLoads,    \* per (key, window): loader runs that ended without raising
    evicted,    \* per (key, window): times its entry was dropped
    seenAll,    \* per (key, window): the values returned to callers
    seenCur,    \* the same, since the entry was last dropped
    usedAt,     \* per (key, window): when its entry was last stored or hit
    contacted,  \* whether a request was ever sent to the tracker
    fn_args,    \* the arguments of a function called on its own
    fn_result   \* what that call returned or raised

vars == <<now, config, cache, pc, branch, get, resp, waiters, calls, lastKey,
          lastOf, winsSeen, okLoads, evicted, seenAll, seenCur, usedAt,
          contacted, fn_args, fn_result>>

StartWin == cache_timestamp(StartTime)
EndTime == StartTime + MaxTicks * TickStep
Windows == StartWin .. cache_timestamp(EndTime)
KW == Keys \X Windows

NoGet == [started |-> FALSE]
NoCall == [made |-> FALSE]
NoResponse == [status |-> 0, context |-> <<>>]
Pending == [kind |-> "pending"]
\* Logical time: the requests handled so far.  The entries of a warm cache
\* were stored before, at the times -maxsize (the first) to -1 (the last).
Handled == calls - Cardinality({r \in Req : pc[r] \in {"queued", "loading"}})
NeverUsed == 0 - maxsize - 1
\* no function has been called on its own
NotCalled == [kind |-> "notcalled"]

(***************************************************************************)
(* Initial states: a fresh process, or a process that served, within the   *)
(* first window, one request for each key of a short sequence of keys and  *)
(* then requests for other issues until the cache was full.                *)
(***************************************************************************)
DigitChar(d) == <<"0", "1", "2", "3", "4", "5", "6", "7", "8", "9">>[d + 1]

RECURSIVE Dec(_)
\* str(n), n >= 0
Dec(n) == IF n < 10 THEN <<DigitChar(n)>>
          ELSE Dec(n \div 10) \o <<DigitChar(n % 10)>>

\* the key of the i-th other issue
FillerKey(i) == <<"Z", "Z", "-">> \o Dec(i)

LoadedEntry(k, w, ver) ==
    CacheEntry(<<k, w>>, ReturnDict(IssueDict(k, RemoteIssue(ver))))

\* the other issues are issues the tracker does not know: None is cached
Fillers(n) == [i \in 1 .. n |-> CacheEntry(<<FillerKey(i), StartWin>>, ReturnNone)]

WarmSeqs == {<<k>> : k \in Keys}

\* the configuration is complete or lacks one of the three variables
Configs == {cfg \in [server : BOOLEAN, email : BOOLEAN, token : BOOLEAN] :
                Cardinality({f \in {"server", "email", "token"} : ~cfg[f]}) <= 1}

Range(f) == {f[i] : i \in DOMAIN f}

InitCommon ==
    /\ now = StartTime
    /\ pc = [r \in Req |-> "idle"]
    /\ branch = [r \in Req |-> None]
    /\ get = [r \in Req |-> NoGet]
    /\ resp = [r \in Req |-> NoResponse]
    /\ waiters = [r \in Req |-> {}]
    /\ calls = 0
    /\ lastKey = None
    /\ fn_result = NotCalled
    /\ evicted = [kw \in KW |-> 0]

InitCold ==
    /\ InitCommon
    /\ config \in Configs
    /\ cache = <<>>
    /\ contacted = FALSE
    /\ usedAt = [kw \in KW |-> NeverUsed]
    /\ lastOf = [k \in Keys |-> NoCall]
    /\ winsSeen = [k \in Keys |-> {}]
    /\ okLoads = [kw \in KW |-> 0]
    /\ seenAll = [kw \in KW |-> {}]
    /\ seenCur = [kw \in KW |-> {}]

InitWarm ==
    /\ InitCommon
    /\ config = [server |-> TRUE, email |-> TRUE, token |-> TRUE]
    /\ contacted = TRUE
    /\ \E ws \in WarmSeqs :
        LET warm(k) == k \in Range(ws)
            res(k) == ReturnDict(IssueDict(k, RemoteIssue("v1")))
            one(kw) == IF warm(kw[1]) /\ kw[2] = StartWin THEN 1 ELSE 0
            val(kw) == IF warm(kw[1]) /\ kw[2] = StartWin
                       THEN {res(kw[1])} ELSE {}
        IN  /\ cache = [i \in 1 .. Len(ws) |-> LoadedEntry(ws[i], StartWin, "v1")]
                            \o Fillers(maxsize - Len(ws))
            /\ lastOf = [k \in Keys |->
                            IF warm(k)
                            THEN [made |-> TRUE, win |-> StartWin,
                                  res |-> res(k), loaded |-> TRUE]
                            ELSE NoCall]
            /\ winsSeen = [k \in Keys |-> IF warm(k) THEN {StartWin} ELSE {}]
            /\ okLoads = [kw \in KW |-> one(kw)]
            /\ seenAll = [kw \in KW |-> val(kw)]
            /\ seenCur = [kw \in KW |-> val(kw)]
            /\ usedAt = [kw \in KW |->
                            IF \E i \in 1 .. Len(ws) : kw = <<ws[i], StartWin>>
                            THEN (CHOOSE i \in 1 .. Len(ws) : ws[i] = kw[1])
                                    - 1 - maxsize
                            ELSE NeverUsed]

Init == (InitCold \/ InitWarm) /\ fn_args = <<>>

(***************************************************************************)
(* Scheduling.  get_context is a coroutine (async def) that never awaits:  *)
(* once the event loop starts it, it runs to its return, the blocking      *)
(* Jira call included, and no other handler runs meanwhile.                *)
(***************************************************************************)
EventLoopBusy == \E q \in Req : pc[q] = "loading"

\* the (key, window) pairs of the entries c holds and c2 no longer holds
\* (only the least recently used entry of a cache is ever dropped)
Dropped(c, c2) ==
    IF c # <<>> /\ Len(c2) <= Len(c) /\ CacheFind(c2, Head(c).args) = 0
    THEN {Head(c).args}
    ELSE {}

\* Bookkeeping when a get_issue_details call of request r ends: args its
\* (key, window), result how it ended, loaded whether it ran the loader,
\* src the key of the cache entry that supplied a hit, c2 the cache after.
EndGet(r, args, result, loaded, src, c2) ==
    LET k == args[1]
        w == args[2]
        out == Dropped(cache, c2)
        returned == IF result.kind = "raise" THEN {} ELSE {result}
    IN  /\ cache' = c2
        /\ pc' = [pc EXCEPT ![r] = "done"]
        /\ resp' = [resp EXCEPT ![r] = ContextResponse(k, result)]
        /\ get' = [get EXCEPT ![r] =
                        [started |-> TRUE, key |-> k, win |-> w,
                         loaded |-> loaded, src |-> src, res |-> result]]
        /\ lastKey' = Some(k)
        /\ lastOf' = [lastOf EXCEPT ![k] =
                        [made |-> TRUE, win |-> w, res |-> result,
                         loaded |-> loaded]]
        /\ winsSeen' = [winsSeen EXCEPT ![k] = @ \cup {w}]
        /\ okLoads' = [okLoads EXCEPT ![args] =
                        IF loaded /\ result.kind # "raise" THEN @ + 1 ELSE @]
        /\ evicted' = [kw \in KW |->
                        IF kw \in out THEN evicted[kw] + 1 ELSE evicted[kw]]
        /\ seenAll' = [seenAll EXCEPT ![args] = @ \cup returned]
        /\ seenCur' = [kw \in KW |->
                        (IF kw \in out THEN {} ELSE seenCur[kw])
                            \cup (IF kw = args THEN returned ELSE {})]
        /\ usedAt' = [usedAt EXCEPT ![args] =
                        IF result.kind = "raise" THEN @ ELSE Handled + 1]

(***************************************************************************)
(* Actions                                                                 *)
(***************************************************************************)
\* a POST /context request arrives on the first connection with none
\* outstanding (the response to its previous one, if any, has been read);
\* the body is parsed and the handler is scheduled on the event loop
Arrive(r, b) ==
    /\ pc[r] \in {"idle", "done"}
    /\ \A q \in Req : q < r => pc[q] \notin {"idle", "done"}
    /\ calls < MaxCalls
    /\ pc' = [pc EXCEPT ![r] = "queued"]
    /\ branch' = [branch EXCEPT ![r] = b]
    /\ get' = [get EXCEPT ![r] = NoGet]
    /\ resp' = [resp EXCEPT ![r] = NoResponse]
    /\ waiters' = [q \in Req |-> IF q = r THEN {} ELSE waiters[q] \ {r}]
    /\ calls' = calls + 1
    /\ UNCHANGED <<usedAt, contacted, fn_args, fn_result>>
    /\ UNCHANGED <<now, config, cache, lastKey, lastOf, winsSeen, okLoads,
                   evicted, seenAll, seenCur>>

\* get_context with no branch, an empty branch or a branch without a key
HandleNoKey(r) ==
    /\ pc[r] = "queued"
    /\ ~EventLoopBusy
    /\ LookupKey(branch[r]).isNone
    /\ pc' = [pc EXCEPT ![r] = "done"]
    /\ resp' = [resp EXCEPT ![r] = Response(<<>>)]
    /\ UNCHANGED <<usedAt, contacted, fn_args, fn_result>>
    /\ UNCHANGED <<now, config, cache, branch, get, waiters, calls, lastKey,
                   lastOf, winsSeen, okLoads, evicted, seenAll, seenCur>>

\* get_context whose lookup finds (key, window) in the cache
HandleHit(r) ==
    /\ pc[r] = "queued"
    /\ ~EventLoopBusy
    /\ ~LookupKey(branch[r]).isNone
    /\ LET args == <<LookupKey(branch[r]).str, cache_timestamp(now)>>
           i == CacheFind(cache, args)
       IN  /\ i # 0
           /\ EndGet(r, args, cache[i].result, FALSE, cache[i].args,
                     CacheTouch(cache, i))
    /\ UNCHANGED <<contacted, fn_args, fn_result>>
    /\ UNCHANGED <<now, config, branch, waiters, calls>>

\* get_context whose lookup misses: the loader is entered
HandleMiss(r) ==
    /\ pc[r] = "queued"
    /\ ~EventLoopBusy
    /\ ~LookupKey(branch[r]).isNone
    /\ LET args == <<LookupKey(branch[r]).str, cache_timestamp(now)>>
       IN  /\ CacheFind(cache, args) = 0
           /\ get' = [get EXCEPT ![r] =
                        [started |-> TRUE, key |-> args[1], win |-> args[2],
                         loaded |-> TRUE, src |-> args, res |-> Pending]]
    /\ pc' = [pc EXCEPT ![r] = "loading"]
    /\ waiters' = [waiters EXCEPT ![r] = {q \in Req \ {r} : pc[q] = "queued"}]
    /\ UNCHANGED <<usedAt, contacted, fn_args, fn_result>>
    /\ UNCHANGED <<now, config, cache, branch, resp, calls, lastKey, lastOf,
                   winsSeen, okLoads, evicted, seenAll, seenCur>>

\* the loader ends; its outcome is stored (or not) and the response is built
LoadReturn(r, clientOutcome, remote) ==
    /\ pc[r] = "loading"
    /\ LET args == <<get[r].key, get[r].win>>
           result == get_issue_details_cached(args[1], config, clientOutcome,
                                              remote)
       IN  EndGet(r, args, result, TRUE, args, CacheStore(cache, args, result))
    /\ contacted' = (contacted \/ RemoteCalls(config, clientOutcome) > 0)
    /\ UNCHANGED <<fn_args, fn_result>>
    /\ UNCHANGED <<now, config, branch, waiters, calls>>

\* time passes
Tick ==
    /\ now + TickStep <= EndTime
    /\ now' = now + TickStep
    /\ UNCHANGED <<usedAt, contacted, fn_args, fn_result>>
    /\ UNCHANGED <<config, cache, pc, branch, get, resp, waiters, calls, lastKey,
                   lastOf, winsSeen, okLoads, evicted, seenAll, seenCur>>

Next ==
    \/ \E r \in Req, b \in Branches : Arrive(r, b)
    \/ \E r \in Req : HandleNoKey(r)
    \/ \E r \in Req : HandleHit(r)
    \/ \E r \in Req : HandleMiss(r)
    \/ \E r \in Req, co \in ClientOutcomes, ro \in RemoteOutcomes :
            LoadReturn(r, co, ro)
    \/ Tick

Spec == Init /\ [][Next]_vars

(***************************************************************************)
(* utils.extract_jira_key_from_branch called on its own, on every branch   *)
(* name of up to MaxBranchLen characters: uppercase and lowercase letters, *)
(* the hyphen, an ASCII digit and a digit outside ASCII.  The service is   *)
(* idle meanwhile.                                                         *)
(***************************************************************************)
BranchChars == {"A", "B", "a", "-", "1", "U+0661"}

BranchNames == UNION {[1 .. n -> BranchChars] : n \in 0 .. MaxBranchLen}

\* the service right after start-up, fully configured
Idle == InitCold /\ ConfigComplete(config)

service == <<now, config, cache, pc, branch, get, resp, waiters, calls, lastKey,
             lastOf, winsSeen, okLoads, evicted, seenAll, seenCur, usedAt,
             contacted>>

ExtractInit ==
    /\ Idle
    /\ fn_args \in {<<b>> : b \in BranchNames}

CallExtract ==
    /\ fn_result = NotCalled
    /\ fn_result' = extract_jira_key_from_branch(fn_args[1])
    /\ UNCHANGED <<service, fn_args>>

ExtractNext == CallExtract

ExtractSpec == ExtractInit /\ [][ExtractNext]_vars

(***************************************************************************)
(* jira.get_issue_details_cached called on its own (the decorated          *)
(* function's body, one run of the loader), for every key, every           *)
(* combination of environment variables set or missing, and every          *)
(* behaviour of the tracker.                                               *)
(***************************************************************************)
AllConfigs == [server : BOOLEAN, email : BOOLEAN, token : BOOLEAN]

LoaderInit ==
    /\ Idle
    /\ fn_args \in Keys \X AllConfigs \X ClientOutcomes \X RemoteOutcomes

CallLoader ==
    /\ fn_result = NotCalled
    /\ fn_result' = get_issue_details_cached(fn_args[1], fn_args[2], fn_args[3],
                                             fn_args[4])
    /\ UNCHANGED <<service, fn_args>>

LoaderNext == CallLoader

LoaderSpec == LoaderInit /\ [][LoaderNext]_vars

(***************************************************************************)
(* Properties                                                              *)
(***************************************************************************)
\* the step in which the get_issue_details call of request r ends
GetEnds(r) == pc[r] \in {"queued", "loading"} /\ pc'[r] = "done" /\ get'[r].started

\* a call that ended by returning (a dict or None) rather than raising
Returned(res) == res.kind \in {"dict", "none"}

\* C1: when a get_issue_details(k) call made in window w returned a result
\* and the next get_issue_details call is again for k and again made in
\* window w, the second call does not run the loader and returns the value
\* the first returned, whatever the loader would return now.
C1_SameWindowHit ==
    [][\A r \in Req :
         GetEnds(r) =>
            LET k == get'[r].key
                b == lastOf[k]
            IN  (lastKey = Some(k) /\ b.made /\ b.win = get'[r].win
                    /\ Returned(b.res))
                => (~get'[r].loaded /\ get'[r].res = b.res)]_vars

\* two requests for one key handled in one window: the first loaded a
\* result, the second got the same result without loading
C1_Witness ==
    \E r1 \in Req, r2 \in Req :
        /\ r1 # r2 /\ pc[r1] = "done" /\ pc[r2] = "done"
        /\ get[r1].started /\ get[r2].started
        /\ get[r1].key = get[r2].key /\ get[r1].win = get[r2].win
        /\ get[r1].loaded /\ Returned(get[r1].res)
        /\ ~get[r2].loaded /\ get[r2].res = get[r1].res
        /\ lastKey = Some(get[r2].key)

\* the cache holds nothing for the (key, window) of a call that raised, as
\* long as it is the latest call for its key
C2_NothingStored ==
    \A k \in Keys :
        (lastOf[k].made /\ lastOf[k].res.kind = "raise")
            => CacheFind(cache, <<k, lastOf[k].win>>) = 0

\* a call for (k, w) that follows a call for (k, w) that raised runs the
\* loader, and what it returns is what the cache then holds for (k, w)
C2_Retried ==
    \A r \in Req :
        GetEnds(r) =>
            LET k == get'[r].key
                b == lastOf[k]
                args == <<k, get'[r].win>>
            IN  (b.made /\ b.win = get'[r].win /\ b.res.kind = "raise")
                => /\ get'[r].loaded
                   /\ get'[r].src = args
                   /\ Returned(get'[r].res) =>
                        /\ CacheFind(cache', args) # 0
                        /\ cache'[CacheFind(cache', args)].result = get'[r].res

\* C2: a get for k in window w whose load raises stores nothing for (k, w);
\* the next get for k in window w runs the loader again, and when that load
\* returns, its result is what the call returns and what the cache now holds.
C2_FailureNotCached == []C2_NothingStored /\ [][C2_Retried]_vars

\* a load raised, and the next request for the key, in the same window,
\* loaded again and got a dict
C2_Witness ==
    \E r1 \in Req, r2 \in Req :
        /\ r1 # r2 /\ pc[r1] = "done" /\ pc[r2] = "done"
        /\ get[r1].started /\ get[r2].started
        /\ get[r1].key = get[r2].key /\ get[r1].win = get[r2].win
        /\ get[r1].res.kind = "raise"
        /\ get[r2].loaded /\ get[r2].res.kind = "dict"
        /\ lastOf[get[r2].key].res = get[r2].res

\* C3: when the loader reported 404 for k in window w, None is cached: the
\* next get, again for k and again in window w, does not run the loader and
\* returns None again.
C3_NotFoundCached ==
    [][\A r \in Req :
         GetEnds(r) =>
            LET k == get'[r].key
                b == lastOf[k]
            IN  (lastKey = Some(k) /\ b.made /\ b.win = get'[r].win
                    /\ b.loaded /\ b.res = ReturnNone)
                => (~get'[r].loaded /\ get'[r].res = ReturnNone)]_vars

\* a load returned None and the next request, for the same key in the same
\* window, got None from the cache
C3_Witness ==
    \E r1 \in Req, r2 \in Req :
        /\ r1 # r2 /\ pc[r1] = "done" /\ pc[r2] = "done"
        /\ get[r1].started /\ get[r2].started
        /\ get[r1].key = get[r2].key /\ get[r1].win = get[r2].win
        /\ get[r1].loaded /\ get[r1].res = ReturnNone
        /\ ~get[r2].loaded /\ get[r2].res = ReturnNone
        /\ resp[r2] = Response(<<>>)

\* C4: a get for k made at a window index at which no earlier get for k was
\* made runs the loader, even while the cache holds an entry for k of an
\* older window; a get that does not run the loader returns the value of the
\* entry stored under its own key and window index.
C4_NewWindowLoads ==
    [][\A r \in Req :
         GetEnds(r) =>
            /\ get'[r].win \notin winsSeen[get'[r].key] => get'[r].loaded
            /\ ~get'[r].loaded => get'[r].src = <<get'[r].key, get'[r].win>>]_vars

\* a get ran the loader while the cache held the key's entry of another window
C4_Witness ==
    \E r \in Req :
        /\ pc[r] = "done" /\ get[r].started /\ get[r].loaded
        /\ \E w \in Windows \ {get[r].win} :
                /\ CacheFind(cache, <<get[r].key, w>>) # 0
                /\ w \in winsSeen[get[r].key]

\* C5: when requests for one (key, window) are in progress together and the
\* cache holds no entry for the pair, the loader runs once in all: a request
\* that was waiting when another began the load for its (key, window) does
\* not run the loader itself.
C5_LoadedOnce ==
    \A r1 \in Req, r2 \in Req :
        (/\ r2 \in waiters[r1]
         /\ get[r1].started /\ get[r2].started
         /\ get[r1].key = get[r2].key /\ get[r1].win = get[r2].win)
            => ~get[r2].loaded

\* C6: for every key k and window index w, the loader runs that end without
\* raising number at most one more than the times the entry of (k, w) was
\* evicted from the cache.
C6_OneLoadPerResidence ==
    \A kw \in KW : okLoads[kw] <= 1 + evicted[kw]

\* C6 as stated: for every key k and window index w there is at most one
\* loader run that ends without raising, whatever the mix of keys and the
\* request volume
C6_OneLoadPerWindow ==
    \A kw \in KW : okLoads[kw] <= 1

\* an entry was evicted and its key loaded again in the same window
C6_Witness ==
    \E kw \in KW : okLoads[kw] = 2 /\ evicted[kw] = 1

\* C7: the get calls for one key made in one window that return a result
\* while the key's entry stays in the cache all return the same data,
\* whatever calls for other keys happen between them.
C7_SameDataWhileCached ==
    \A kw \in KW : Cardinality(seenCur[kw]) <= 1

\* C7 as stated: any two get calls for one key made in one window that both
\* return a result return the same data
C7_SameDataInWindow ==
    \A kw \in KW : Cardinality(seenAll[kw]) <= 1

\* a call returned from a full cache the data an earlier call for its key
\* and window had loaded before the calls for other keys that filled it
C7_Witness ==
    \E r \in Req :
        /\ pc[r] = "done" /\ get[r].started /\ ~get[r].loaded
        /\ Len(cache) = maxsize
        /\ lastOf[get[r].key].loaded = FALSE
        /\ seenAll[<<get[r].key, get[r].win>>] = {get[r].res}

\* at most maxsize entries, no two for the same (key, window)
C8_Bounded ==
    /\ Len(cache) <= maxsize
    /\ Cardinality({cache[i].args : i \in 1 .. Len(cache)}) = Len(cache)

\* a load that stores its result in a full cache leaves it full, holding the
\* new entry and all but one of the entries it held
C8_EvictsOne ==
    \A r \in Req :
        (/\ pc[r] = "loading" /\ pc'[r] = "done"
         /\ Returned(get'[r].res)
         /\ Len(cache) = maxsize)
            => /\ Len(cache') = maxsize
               /\ CacheFind(cache', <<get'[r].key, get'[r].win>>) # 0
               /\ Cardinality({cache[i].args : i \in 1 .. Len(cache)}
                                \ {cache'[i].args : i \in 1 .. Len(cache')}) = 1

\* C8: the cache never holds more than maxsize (100) entries, no two of them
\* for the same (key, window); a load that stores its result in a full cache
\* removes exactly one of the entries that were there.
C8_Capacity == []C8_Bounded /\ [][C8_EvictsOne]_vars

\* a load stored its result in a full cache
C8_Witness ==
    \E r \in Req :
        /\ pc[r] = "done" /\ get[r].started /\ get[r].loaded
        /\ Returned(get[r].res)
        /\ Len(cache) = maxsize
        /\ cache[Len(cache)].args = <<get[r].key, get[r].win>>
        /\ CacheFind(cache, <<FillerKey(1), StartWin>>) = 0

\* C9: a request whose lookup returned None or raised (a failure of the
\* tracker, a missing configuration, anything else) is answered normally,
\* with an empty context list; no request is answered with an error.
C9_NeverFails ==
    \A r \in Req :
        pc[r] = "done" =>
            /\ resp[r].status = 200
            /\ (get[r].started /\ ~(get[r].res.kind = "dict"))
                    => resp[r] = Response(<<>>)

\* a lookup raised and the request was answered with an empty list
C9_Witness ==
    \E r \in Req :
        /\ pc[r] = "done" /\ get[r].started /\ get[r].res.kind = "raise"
        /\ resp[r] = Response(<<>>)

\* C10: a request without a branch, with an empty branch or with a branch
\* in which no key is found is answered with an empty context list, and
\* handling it neither runs the loader nor touches the cache.
C10_NoKeyNoLookup ==
    [][\A r \in Req :
         (/\ pc[r] = "queued" /\ pc'[r] # "queued"
          /\ \/ ~Truthy(branch[r])
             \/ extract_jira_key_from_branch(branch[r].str).isNone)
            => /\ pc'[r] = "done"
               /\ resp'[r] = Response(<<>>)
               /\ ~get'[r].started
               /\ cache' = cache
               /\ okLoads' = okLoads
               /\ \A q \in Req : pc'[q] # "loading"]_vars

\* a request whose branch holds no key was answered while the cache held
\* entries
C10_Witness ==
    \E r \in Req :
        /\ pc[r] = "done" /\ Truthy(branch[r]) /\ ~get[r].started
        /\ resp[r] = Response(<<>>)
        /\ cache # <<>>

\* the six metadata fields of a context item
MetadataFields ==
    {"issue_key", "status", "priority", "assignee", "url", "issuetype"}

\* C11: every context item of a response to POST /context has type
\* "jira_issue", a title, a content and a metadata record that holds all six
\* fields issue_key, status, priority, assignee, url and issuetype.
C11_ItemShape ==
    \A r \in Req :
        \A i \in 1 .. Len(resp[r].context) :
            LET item == resp[r].context[i]
            IN  /\ {"type", "title", "content", "metadata"} \subseteq DOMAIN item
                /\ item.type = "jira_issue"
                /\ MetadataFields \subseteq DOMAIN item.metadata

\* t is, as a whole, two or more uppercase ASCII letters, a hyphen and one
\* or more of the digits 0 to 9
KeyPattern(t) ==
    \E n \in 2 .. Len(t) :
        /\ n + 2 <= Len(t)
        /\ \A i \in 1 .. n : t[i] \in UpperChars
        /\ t[n + 1] = "-"
        /\ \A i \in n + 2 .. Len(t) : t[i] \in AsciiDigits

\* the positions of s at which a substring matching the pattern starts
KeyStarts(s) ==
    {i \in 1 .. Len(s) : \E j \in i .. Len(s) : KeyPattern(SubSeq(s, i, j))}

\* C12: for every branch name, extract_jira_key_from_branch returns None
\* when no substring matches [A-Z]{2,}-[0-9]+ and otherwise a substring that
\* matches it and starts at the leftmost position at which a match starts,
\* wherever in the name that is; lowercase letters never count as the
\* prefix.
C12_LeftmostMatch ==
    fn_result # NotCalled =>
        LET s == fn_args[1]
            starts == KeyStarts(s)
        IN  IF starts = {}
            THEN fn_result = None
            ELSE LET first == CHOOSE i \in starts : \A j \in starts : i <= j
                 IN  /\ ~fn_result.isNone
                     /\ KeyPattern(fn_result.str)
                     /\ first + Len(fn_result.str) - 1 <= Len(s)
                     /\ fn_result.str
                            = SubSeq(s, first, first + Len(fn_result.str) - 1)

\* C13: when one of JIRA_SERVER, JIRA_EMAIL and JIRA_API_TOKEN is missing,
\* every get_issue_details call that has ended raised, no request was ever
\* sent to the tracker, and the cache holds nothing.
C13_MissingConfig ==
    (~config.server \/ ~config.email \/ ~config.token)
        => /\ ~contacted
           /\ cache = <<>>
           /\ \A r \in Req :
                (get[r].started /\ get[r].res # Pending)
                    => /\ get[r].res.kind = "raise"
                       /\ get[r].res.type = "JiraClientError"
                       /\ resp[r] = Response(<<>>)

\* with JIRA_EMAIL missing, two requests for one key in one window both ran
\* the loader and both ended in an error
C13_Witness ==
    /\ ~config.email
    /\ \E r1 \in Req, r2 \in Req :
        /\ r1 # r2 /\ pc[r1] = "done" /\ pc[r2] = "done"
        /\ get[r1].started /\ get[r2].started
        /\ get[r1].key = get[r2].key /\ get[r1].win = get[r2].win
        /\ get[r1].loaded /\ get[r2].loaded
        /\ get[r1].res.kind = "raise" /\ get[r2].res.kind = "raise"

\* C14: while the load of one request is in flight, a queued request whose
\* (key, window) entry is in the cache can be answered from it at once, the
\* load still running.
C14_HitNotBlocked ==
    \A q \in Req, r \in Req :
        (/\ pc[q] = "loading"
         /\ pc[r] = "queued"
         /\ ~LookupKey(branch[r]).isNone
         /\ CacheFind(cache, <<LookupKey(branch[r]).str, cache_timestamp(now)>>)
                # 0)
            => ENABLED HandleHit(r)

\* C15: one run of the loader returns None exactly when the client was
\* created and the tracker answered the request for the issue with status
\* 404; it returns the issue's dict exactly when that request succeeded; in
\* every other case (configuration missing, client not created, another
\* status, any other exception) it raises JiraClientError with a message.
C15_LoaderOutcomes ==
    fn_result # NotCalled =>
        LET cfg == fn_args[2]
            remote == fn_args[4]
            asked == cfg.server /\ cfg.email /\ cfg.token /\ fn_args[3] = "ok"
            notFound == /\ asked
                        /\ remote.kind = "jiraerror"
                        /\ remote.status_code = 404
            found == asked /\ remote.kind = "ok"
        IN  /\ fn_result = ReturnNone <=> notFound
            /\ fn_result.kind = "dict" <=> found
            /\ found => fn_result.val.summary = RemoteIssue(remote.ver).summary
            /\ ~(notFound \/ found)
                => /\ fn_result.kind = "raise"
                   /\ fn_result.type = "JiraClientError"
                   /\ fn_result.msg # ""

\* the tracker answered the request for the issue with 404 and the loader
\* returned None
C15_Witness ==
    /\ fn_result = ReturnNone
    /\ fn_args[3] = "ok"
    /\ fn_args[4] = [kind |-> "jiraerror", status_code |-> 404]

\* the number a filler key ends in
DigitVal(ch) == CHOOSE d \in 0 .. 9 : DigitChar(d) = ch

RECURSIVE Num(_)
Num(digits) ==
    IF digits = <<>> THEN 0
    ELSE 10 * Num(SubSeq(digits, 1, Len(digits) - 1))
            + DigitVal(digits[Len(digits)])

\* when the entry under args was last used: usedAt for the keys of the
\* requests, the time of its store for an entry of the warm-up
LastUse(args) ==
    IF args \in KW THEN usedAt[args]
    ELSE Num(SubSeq(args[1], 4, Len(args[1]))) - maxsize

\* C16: when a load stores its result in a full cache, exactly one entry
\* leaves the cache, and every entry that stays was last used (stored or
\* returned on a hit) later than the one that leaves; so an entry hit more
\* recently than another is never evicted before that other.
C16_EvictsLeastRecent ==
    [][\A r \in Req :
         (/\ pc[r] = "loading" /\ pc'[r] = "done"
          /\ Returned(get'[r].res)
          /\ Len(cache) = maxsize)
            => \A after \in {{cache'[j].args : j \in 1 .. Len(cache')}} :
               \A gone \in {{i \in 1 .. Len(cache) : cache[i].args \notin after}} :
                    /\ Cardinality(gone) = 1
                    /\ \A i \in gone :
                       \A t \in {LastUse(cache[i].args)} :
                       \A j \in (1 .. Len(cache)) \ gone :
                            t < LastUse(cache[j].args)]_vars

\* in a full cache, the oldest entry was hit, and then a load for another
\* key stored its result: the entry that was hit stayed and the oldest of
\* the others left
C16_Witness ==
    \E r1 \in Req, r2 \in Req :
        /\ r1 # r2 /\ pc[r1] = "done" /\ pc[r2] = "done"
        /\ get[r1].started /\ ~get[r1].loaded
        /\ get[r2].started /\ get[r2].loaded /\ Returned(get[r2].res)
        /\ Len(cache) = maxsize
        /\ usedAt[<<get[r1].key, get[r1].win>>] > 0
        /\ usedAt[<<get[r1].key, get[r1].win>>]
                < usedAt[<<get[r2].key, get[r2].win>>]
        /\ CacheFind(cache, <<get[r1].key, get[r1].win>>) # 0
        /\ CacheFind(cache, <<FillerKey(1), StartWin>>) = 0
        /\ CacheFind(cache, <<FillerKey(2), StartWin>>) # 0

\* C17: a response to POST /context holds at most one context item, and
\* exactly one when a key was extracted from the branch and the lookup
\* returned the issue's dict; the title of that item is the extracted key,
\* then ": ", then the issue's summary, and its metadata issue_key is the
\* extracted key.
C17_OneItem ==
    \A r \in Req :
        pc[r] = "done" =>
            /\ Len(resp[r].context) <= 1
            /\ (/\ Truthy(branch[r])
                /\ ~extract_jira_key_from_branch(branch[r].str).isNone
                /\ get[r].started
                /\ get[r].res.kind = "dict")
                => LET key == extract_jira_key_from_branch(branch[r].str).str
                   IN  /\ Len(resp[r].context) = 1
                       /\ resp[r].context[1].title
                            = <<key, ": ", get[r].res.val.summary>>
                       /\ resp[r].context[1].metadata.issue_key = key

\* the request with branch "f/AB-1" was answered with the one item of the
\* issue AB-1
C17_Witness ==
    \E r \in Req :
        /\ pc[r] = "done"
        /\ branch[r] = Some(<<"f", "/", "A", "B", "-", "1">>)
        /\ Len(resp[r].context) = 1
        /\ resp[r].context[1].title = <<<<"A", "B", "-", "1">>, ": ", "Fix login">>
        /\ resp[r].context[1].metadata.issue_key = <<"A", "B", "-", "1">>

\* C18: a step in which time passes leaves the cache as it is; an entry
\* leaves the cache only when a load stores its result in a full cache, so
\* the entries of past windows stay and count toward maxsize until they are
\* evicted; and a call answered from the cache is answered from an entry of
\* the window of the call, never from an entry of a past window.
C18_StaleEntriesStay ==
    [][/\ now' # now => cache' = cache
       /\ cache' # cache =>
            \A after \in {{cache'[j].args : j \in 1 .. Len(cache')}} :
                (\E i \in 1 .. Len(cache) : cache[i].args \notin after)
                    => /\ Len(cache) = maxsize
                       /\ Len(cache') = maxsize
                       /\ \E r \in Req : /\ pc[r] = "loading" /\ pc'[r] = "done"
                                         /\ Returned(get'[r].res)
       /\ \A r \in Req :
            (GetEnds(r) /\ ~get'[r].loaded)
                => /\ get'[r].src[2] = cache_timestamp(now)
                   /\ get'[r].win = cache_timestamp(now)]_vars

\* in a window after the first, a call for a key loaded and stored its
\* result while the full cache still held the entry of the same key from
\* the first window
C18_Witness ==
    \E r \in Req :
        /\ pc[r] = "done" /\ get[r].started /\ get[r].loaded
        /\ Returned(get[r].res)
        /\ get[r].win > StartWin
        /\ CacheFind(cache, <<get[r].key, StartWin>>) # 0
        /\ CacheFind(cache, <<get[r].key, get[r].win>>) # 0
        /\ Len(cache) = maxsize

\* the value v is an outcome of the loader for key k: None, or the dict of
\* the issue k (its url names k)
OutcomeFor(k, v) ==
    \/ v = ReturnNone
    \/ /\ v.kind = "dict"
       /\ v.val.url = <<"JIRA_SERVER", "/browse/", k>>
       /\ \E ver \in Versions : v.val = IssueDict(k, RemoteIssue(ver))

\* C19: key isolation.  A call for key k that ends is a call for the key of
\* its request's branch; answered from the cache, it returns the value of
\* the entry stored under k and its window; every entry that gets into the
\* cache gets there at the end of a load for its own key and holds what
\* that load returned; and every value returned for k is an outcome of the
\* loader for k.
C19_KeyIsolation ==
    [][/\ \A r \in Req :
            GetEnds(r) =>
                LET k == get'[r].key
                    args == <<k, get'[r].win>>
                IN  /\ Some(k) = extract_jira_key_from_branch(branch[r].str)
                    /\ ~get'[r].loaded =>
                        /\ get'[r].src = args
                        /\ CacheFind(cache, args) # 0
                        /\ get'[r].res = cache[CacheFind(cache, args)].result
                    /\ Returned(get'[r].res) => OutcomeFor(k, get'[r].res)
       /\ cache' # cache =>
            \A before \in {Range(cache)} :
                \A i \in 1 .. Len(cache') :
                    cache'[i] \notin before =>
                        \E r \in Req :
                            /\ pc[r] = "loading" /\ pc'[r] = "done"
                            /\ cache'[i].args = <<get[r].key, get[r].win>>
                            /\ cache'[i].result = get'[r].res]_vars

\* calls for two keys in one window: one was answered from the cache with
\* its own issue, the other loaded its own issue, and the cache holds both
C19_Witness ==
    \E r1 \in Req, r2 \in Req :
        /\ r1 # r2 /\ pc[r1] = "done" /\ pc[r2] = "done"
        /\ get[r1].started /\ get[r2].started
        /\ get[r1].key # get[r2].key /\ get[r1].win = get[r2].win
        /\ get[r1].loaded /\ get[r1].res.kind = "dict"
        /\ ~get[r2].loaded /\ get[r2].res.kind = "dict"
        /\ get[r2].res.val.url = <<"JIRA_SERVER", "/browse/", get[r2].key>>
        /\ get[r1].res.val.url = <<"JIRA_SERVER", "/browse/", get[r1].key>>
        /\ CacheFind(cache, <<get[r1].key, get[r1].win>>) # 0
        /\ CacheFind(cache, <<get[r2].key, get[r2].win>>) # 0

\* C20: a get_issue_details call whose load raises leaves the cache as it
\* was before the call: the cache does not change when the call misses and
\* enters the loader, nor while the load runs, nor when the load ends by
\* raising; no entry is added, dropped or changed and the order of the
\* entries stays.
C20_FailedLoadKeepsCache ==
    [][\A r \in Req :
         /\ (pc[r] = "queued" /\ pc'[r] = "loading") => cache' = cache
         /\ (pc[r] = "loading" /\ pc'[r] = "loading") => cache' = cache
         /\ (pc[r] = "loading" /\ pc'[r] = "done"
                /\ get'[r].res.kind = "raise")
                => /\ cache' = cache
                   /\ get'[r].loaded
                   /\ usedAt' = usedAt]_vars

\* in a full cache an entry was hit and then the load of another call
\* raised: the cache is still full, the entry that was hit is still the most
\* recently used one, the oldest entry is still there, and nothing is held
\* for the call that failed
C20_Witness ==
    \E r1 \in Req, r2 \in Req :
        /\ r1 # r2 /\ pc[r1] = "done" /\ pc[r2] = "done"
        /\ get[r1].started /\ ~get[r1].loaded
        /\ get[r2].started /\ get[r2].loaded /\ get[r2].res.kind = "raise"
        /\ lastKey = Some(get[r2].key)
        /\ Len(cache) = maxsize
        /\ cache[maxsize].args = <<get[r1].key, get[r1].win>>
        /\ cache[1].args = <<FillerKey(1), StartWin>>
        /\ CacheFind(cache, <<get[r2].key, get[r2].win>>) = 0

====
